---- MODULE Spec2Model ----
(***************************************************************************)
(* Model of the rust-actions cache-api client (src/cache-api/src/lib.rs):  *)
(* response classification, the lookup protocol (get_url, get_bytes) and   *)
(* the three-phase store protocol (put_bytes), run against a cache server  *)
(* that either answers arbitrarily or follows the wire protocol.           *)
(***************************************************************************)
EXTENDS Integers, Sequences, FiniteSets, TLC

(* ------------------------------------------------------------------ *)
(* Bounds of the model                                                 *)
(* ------------------------------------------------------------------ *)
MaxPayloadLen == 2
MaxPrefixes == 2
MaxCacheId == 2
MaxCalls == 3
MaxTasks == 2
MaxHeaderLen == 2

(* ------------------------------------------------------------------ *)
(* Rust Option / Result                                                *)
(* ------------------------------------------------------------------ *)
None == <<>>
Some(x) == <<x>>
IsSome(o) == Len(o) = 1
Unwrap(o) == o[1]

Ok(v) == [tag |-> "Ok", val |-> v]
Err(e) == [tag |-> "Err", err |-> e]
IsOk(r) == r.tag = "Ok"
IsErr(r) == r.tag = "Err"

(* Error::Reqwest(reqwest::Error): cause is "request" (send failed),       *)
(* "status" (error_for_status), "decode" (json body) or "body" (bytes).    *)
ReqwestError(cause, status) == [kind |-> "Reqwest", cause |-> cause, status |-> status]
RateLimitError(n, status) ==
    [kind |-> "RateLimit", retry_after |-> n, source |-> ReqwestError("status", status)]
NoRuntimeToken == [kind |-> "NoRuntimeToken"]
NoEndpointUrl == [kind |-> "NoEndpointUrl"]

(* ------------------------------------------------------------------ *)
(* http::StatusCode classes                                            *)
(* ------------------------------------------------------------------ *)
NO_CONTENT == 204
is_client_error(s) == 400 <= s /\ s <= 499
is_server_error(s) == 500 <= s /\ s <= 599

(* ------------------------------------------------------------------ *)
(* Header values are sequences of one-character strings.               *)
(* ------------------------------------------------------------------ *)
DigitChars == <<"0", "1", "2", "3", "4", "5", "6", "7", "8", "9">>
IsDigit(c) == \E i \in 1..10 : DigitChars[i] = c
DigitVal(c) == (CHOOSE i \in 1..10 : DigitChars[i] = c) - 1

(* HeaderValue::to_str succeeds only on visible ASCII; "\\x80" stands for  *)
(* any byte outside that range.                                            *)
IsVisibleAscii(c) == c # "\\x80"
to_str(v) == IF \A i \in 1..Len(v) : IsVisibleAscii(v[i]) THEN Some(v) ELSE None

RECURSIVE StripZeros(_)
StripZeros(d) == IF Len(d) > 1 /\ d[1] = "0" THEN StripZeros(Tail(d)) ELSE d

RECURSIVE DigitsLess(_, _)
(* a < b for digit strings of equal length *)
DigitsLess(a, b) ==
    IF Len(a) = 0 THEN FALSE
    ELSE IF DigitVal(a[1]) # DigitVal(b[1]) THEN DigitVal(a[1]) < DigitVal(b[1])
    ELSE DigitsLess(Tail(a), Tail(b))

(* u64::MAX = 18446744073709551615 *)
U64MaxDigits ==
    <<"1", "8", "4", "4", "6", "7", "4", "4", "0", "7",
      "3", "7", "0", "9", "5", "5", "1", "6", "1", "5">>

FitsU64(d) ==
    LET c == StripZeros(d) IN
    \/ Len(c) < Len(U64MaxDigits)
    \/ Len(c) = Len(U64MaxDigits) /\ ~DigitsLess(U64MaxDigits, c)

RECURSIVE Horner(_, _)
Horner(acc, d) == IF Len(d) = 0 THEN acc ELSE Horner(acc * 10 + DigitVal(d[1]), Tail(d))

(* str::parse::<u64>: an optional leading "+", then one or more decimal    *)
(* digits, no sign "-", no surrounding whitespace, value at most u64::MAX. *)
ParseU64(s) ==
    IF Len(s) = 0 THEN None
    ELSE IF Len(s) = 1 /\ s[1] \in {"+", "-"} THEN None
    ELSE LET d == IF s[1] = "+" THEN Tail(s) ELSE s IN
         IF \E i \in 1..Len(d) : ~IsDigit(d[i]) THEN None
         ELSE IF ~FitsU64(d) THEN None
         ELSE Some(Horner(0, StripZeros(d)))

(* A response: status, the Retry-After header (None when absent) and body *)
Response(status, retry_after, body) ==
    [status |-> status, retry_after |-> retry_after, body |-> body]

(* .headers().get(RETRY_AFTER).and_then(|v| v.to_str().ok()?.parse().ok()) *)
RetryAfterOf(response) ==
    IF ~IsSome(response.retry_after) THEN None
    ELSE LET s == to_str(Unwrap(response.retry_after)) IN
         IF IsSome(s) THEN ParseU64(Unwrap(s)) ELSE None

(* reqwest Response::error_for_status *)
error_for_status(response) ==
    IF is_client_error(response.status) \/ is_server_error(response.status)
    THEN Err(ReqwestError("status", response.status))
    ELSE Ok(response)

(* a variant that reads Retry-After whatever the status *)
error_for_response_any_status(response) ==
    IF IsSome(RetryAfterOf(response))
    THEN Err(RateLimitError(Unwrap(RetryAfterOf(response)), response.status))
    ELSE error_for_status(response)

error_for_response(response) ==
    IF (is_client_error(response.status) \/ is_server_error(response.status))
       /\ IsSome(RetryAfterOf(response))
    THEN Err(RateLimitError(Unwrap(RetryAfterOf(response)), response.status))
    ELSE error_for_status(response)

(* ------------------------------------------------------------------ *)
(* Value domains                                                       *)
(* ------------------------------------------------------------------ *)
RECURSIVE SeqsUpTo(_, _)
(* all sequences over S of length 0..n *)
SeqsUpTo(S, n) ==
    IF n = 0 THEN {<<>>}
    ELSE LET shorter == SeqsUpTo(S, n - 1) IN
         shorter \cup {Append(q, x) : q \in {r \in shorter : Len(r) = n - 1}, x \in S}

TaskIds == 1..MaxTasks
KeySpaces == {"v1", "v2"}
(* keys are strings, written as character sequences: "a", "b" and "a,b" *)
Keys == {<<"a">>, <<"b">>, <<"a", ",", "b">>}
PrefixLists == SeqsUpTo(Keys, MaxPrefixes) \ {<<>>}
ByteValues == {0, 255}
Payloads == SeqsUpTo(ByteValues, MaxPayloadLen)
CacheIds == 1..MaxCacheId
Scope == "refs/heads/main"
(* the archive location of an entry is a URL naming its key space and key *)
LocationOf(version, key) == <<version, key>>
Statuses == {200, 204, 300, 429, 503}
(* Retry-After of the answers to a call: absent or "7"; every other text is   *)
(* classified in SpecClassify                                               *)
RetryAfterHeaders == {None, Some(<<"7">>)}

(* ------------------------------------------------------------------ *)
(* The Cache instance                                                  *)
(* ------------------------------------------------------------------ *)
VARIABLES
    env,            \* the process environment read by Cache::new
    user_agent,     \* the argument of Cache::new
    cache           \* what Cache::new returned, None before it was called

config_vars == <<env, user_agent, cache>>

(* the fields of the Cache instance the tasks share *)
Token == Unwrap(cache).val.token
Endpoint == Unwrap(cache).val.endpoint

(* ------------------------------------------------------------------ *)
(* Requests built by the client                                        *)
(* ------------------------------------------------------------------ *)
RECURSIVE join_reversed(_, _)
(* a variant that emits the strings last to first *)
join_reversed(strs, sep) ==
    IF Len(strs) = 0 THEN <<>>
    ELSE IF Len(strs) = 1 THEN strs[1]
    ELSE join_reversed(Tail(strs), sep) \o sep \o strs[1]

RECURSIVE join(_, _)
(* [&str]::join(sep) on character sequences *)
join(strs, sep) ==
    IF Len(strs) = 0 THEN <<>>
    ELSE IF Len(strs) = 1 THEN strs[1]
    ELSE strs[1] \o sep \o join(Tail(strs), sep)

(* the request descriptor before any header is set *)
RequestBuilder(method, url) ==
    [method |-> method, url |-> url, authorization |-> None, accept |-> None,
     query |-> None, content_range |-> None, content_type |-> None, body |-> None]

AcceptHeader == "application/json;api-version=6.0-preview.1"

(* RequestBuilder::bearer_auth: the Authorization header value *)
bearer_auth(token) == <<"Bearer ">> \o token

(* Cache::api_request: bearer token and accept header *)
api_request(builder) ==
    [builder EXCEPT !.authorization = Some(bearer_auth(Token)),
                    !.accept = Some(AcceptHeader)]

(* format!("{}/cache", endpoint), format!("{}/caches", endpoint),          *)
(* format!("{}/caches/{}", endpoint, cache_id), and the archive location   *)
ApiUrl(path) == [base |-> Endpoint, path |-> path, id |-> None, location |-> None]
ApiIdUrl(path, cache_id) ==
    [base |-> Endpoint, path |-> path, id |-> Some(cache_id), location |-> None]
LocationUrl(location) ==
    [base |-> <<>>, path |-> "", id |-> None, location |-> Some(location)]

LookupRequest(key_space, key_prefixes) ==
    [api_request(RequestBuilder("GET", ApiUrl("cache")))
        EXCEPT !.query = Some([keys |-> join(key_prefixes, <<",">>), version |-> key_space])]

(* a variant that builds the download like an API request *)
DownloadRequest_authenticated(location) ==
    api_request(RequestBuilder("GET", LocationUrl(location)))

DownloadRequest(location) == RequestBuilder("GET", LocationUrl(location))

(* RequestBuilder::json: the serialised body and its content type *)
json(builder, value) ==
    [builder EXCEPT !.content_type = Some("application/json"), !.body = Some(value)]

ReserveRequest(key_space, key) ==
    json(api_request(RequestBuilder("POST", ApiUrl("caches"))),
         [json |-> "ReserveRequest", key |-> key, version |-> key_space])

(* a variant whose last index is the length *)
ContentRange_off_by_one(data) == <<"bytes ", 0, "-", Len(data), "/*">>

(* format!("bytes {}-{}/*", 0, data.len() - 1) *)
ContentRange(data) == <<"bytes ", 0, "-", Len(data) - 1, "/*">>

UploadRequest(cache_id, data) ==
    [api_request(RequestBuilder("PATCH", ApiIdUrl("caches", cache_id)))
        EXCEPT !.content_range = Some(ContentRange(data)),
               !.content_type = Some("application/octet-stream"),
               !.body = Some([bytes |-> data])]

FinalizeRequest(cache_id, data) ==
    json(api_request(RequestBuilder("POST", ApiIdUrl("caches", cache_id))),
         [json |-> "FinalizeRequest", size |-> Len(data)])

IsLookup(r) == r.method = "GET" /\ ~IsSome(r.url.location) /\ r.url.path = "cache"
IsDownload(r) == r.method = "GET" /\ IsSome(r.url.location)
IsReserve(r) == r.method = "POST" /\ ~IsSome(r.url.location) /\ r.url.path = "caches" /\ ~IsSome(r.url.id)
IsUpload(r) == r.method = "PATCH" /\ ~IsSome(r.url.location) /\ r.url.path = "caches" /\ IsSome(r.url.id)
IsFinalize(r) == r.method = "POST" /\ ~IsSome(r.url.location) /\ r.url.path = "caches" /\ IsSome(r.url.id)

(* ------------------------------------------------------------------ *)
(* Response bodies and their decoding                                  *)
(* ------------------------------------------------------------------ *)
EmptyBody == [kind |-> "empty"]
GarbageBody == [kind |-> "garbage"]
BrokenBody == [kind |-> "broken"]
BytesBody(bytes) == [kind |-> "bytes", bytes |-> bytes]
HitBody(key, scope, location) ==
    [kind |-> "json", cacheKey |-> key, scope |-> scope, archiveLocation |-> location]
ReservedBody(cache_id) == [kind |-> "json", cacheId |-> cache_id]

CacheHit(key, scope) == [key |-> key, scope |-> scope]

(* Response::json::<GetResponse>() *)
json_GetResponse(body) ==
    IF body.kind = "json" /\ {"cacheKey", "scope", "archiveLocation"} \subseteq DOMAIN body
    THEN Some([hit |-> CacheHit(body.cacheKey, body.scope), location |-> body.archiveLocation])
    ELSE None

(* Response::json::<ReserveResponse>() *)
json_ReserveResponse(body) ==
    IF body.kind = "json" /\ "cacheId" \in DOMAIN body
    THEN Some([cache_id |-> body.cacheId])
    ELSE None

(* Response::bytes(): the bytes of any body that arrives whole, whatever    *)
(* they hold; the text of a body that is no byte payload of the model is    *)
(* kept as one element; only a body whose read fails gives an error         *)
bytes_of(body) ==
    IF body.kind = "bytes" THEN Some(body.bytes)
    ELSE IF body.kind = "empty" THEN Some(<<>>)
    ELSE IF body.kind = "broken" THEN None
    ELSE Some(<<body>>)

(* ------------------------------------------------------------------ *)
(* State                                                               *)
(* ------------------------------------------------------------------ *)
VARIABLES
    tasks,          \* the tasks that share the one Cache instance
    server,         \* "arbitrary", "erratic", "protocol" or "faulty": how the service answers
    calls_left,     \* calls the callers may still start
    pc,             \* per task: the answer or the body the call awaits, "idle" or "returned"
    call,           \* per task: the public function called and its arguments
    sent,           \* per task: the requests sent by the current call, in order
    rcvd,           \* per task: the answers to those requests as the service gave them
    cache_id,       \* per task: put_bytes' local cache_id, once parsed
    found,          \* per task: get_bytes' local (hit, location), once returned by get_url
    result,         \* per task: the value returned by the call
    last_put,       \* arguments of the call that returned last, if a successful put_bytes
    store,          \* service: committed entries
    reservations,   \* service: reservations not yet finalized
    next_id,        \* service: next cache id to hand out
    cl_response,    \* classification: the response handed to error_for_response
    cl_result,      \* classification: what error_for_response returned for it
    cl_retry_after  \* the error Error::retry_after was called on and what it returned

client_vars == <<pc, call, sent, rcvd, cache_id, found, result>>
service_vars == <<store, reservations, next_id>>
classify_vars == <<cl_response, cl_result, cl_retry_after>>
vars == <<tasks, server, calls_left, client_vars, last_put, service_vars, classify_vars,
          config_vars>>

(* ------------------------------------------------------------------ *)
(* Construction                                                        *)
(* ------------------------------------------------------------------ *)
(* a variable of the process environment: not set, set to bytes that are   *)
(* not valid Unicode, or set to a string                                    *)
NotPresent == [var |-> "NotPresent", val |-> <<>>]
NotUnicode == [var |-> "NotUnicode", val |-> <<>>]
Present(v) == [var |-> "Present", val |-> v]

(* std::env::var: Err(VarError) unless the variable is set to valid Unicode *)
env_var(name) == IF env[name].var = "Present" THEN Ok(env[name].val) ELSE Err(env[name].var)

RECURSIVE trim_end_matches(_, _)
(* str::trim_end_matches(char) on character sequences *)
trim_end_matches(str, ch) ==
    IF Len(str) > 0 /\ str[Len(str)] = ch
    THEN trim_end_matches(SubSeq(str, 1, Len(str) - 1), ch)
    ELSE str

(* ClientBuilder::user_agent(..).build(): the builder keeps the error of a  *)
(* user agent that is no valid header value (a control character) and      *)
(* build returns it                                                         *)
IsHeaderValue(text) == \A i \in 1..Len(text) : text[i] # "\\n"
Client_build(agent) ==
    IF IsHeaderValue(agent) THEN Ok([user_agent |-> agent])
    ELSE Err(ReqwestError("builder", 0))

(* a variant that reads the endpoint before the token *)
new_endpoint_first(agent) ==
    LET url == env_var("ACTIONS_CACHE_URL") IN
    IF IsErr(url) THEN Err(NoEndpointUrl)
    ELSE LET token == env_var("ACTIONS_RUNTIME_TOKEN") IN
         IF IsErr(token) THEN Err(NoRuntimeToken)
         ELSE LET client == Client_build(agent) IN
              IF IsErr(client) THEN client
              ELSE Ok([client |-> client.val, token |-> token.val,
                       endpoint |-> trim_end_matches(url.val, "/")
                                       \o <<"/_apis/artifactcache">>])

(* Cache::new *)
new(agent) ==
    LET token == env_var("ACTIONS_RUNTIME_TOKEN") IN
    IF IsErr(token) THEN Err(NoRuntimeToken)
    ELSE LET url == env_var("ACTIONS_CACHE_URL") IN
         IF IsErr(url) THEN Err(NoEndpointUrl)
         ELSE LET client == Client_build(agent) IN
              IF IsErr(client) THEN client
              ELSE Ok([client |-> client.val, token |-> token.val,
                       endpoint |-> trim_end_matches(url.val, "/")
                                       \o <<"/_apis/artifactcache">>])

NoCall == [fn |-> "none", key_space |-> "", key_prefixes |-> <<>>, key |-> <<>>, data |-> <<>>]
GetUrlCall(key_space, key_prefixes) ==
    [fn |-> "get_url", key_space |-> key_space, key_prefixes |-> key_prefixes,
     key |-> <<>>, data |-> <<>>]
GetBytesCall(key_space, keys) ==
    [fn |-> "get_bytes", key_space |-> key_space, key_prefixes |-> keys,
     key |-> <<>>, data |-> <<>>]
PutBytesCall(key_space, key, data) ==
    [fn |-> "put_bytes", key_space |-> key_space, key_prefixes |-> <<>>,
     key |-> key, data |-> data]

(* ------------------------------------------------------------------ *)
(* The cache service                                                   *)
(* ------------------------------------------------------------------ *)
RECURSIVE Split(_, _)
(* the fields of s between occurrences of the separator character *)
Split(s, sep) ==
    IF \A i \in 1..Len(s) : s[i] # sep THEN <<s>>
    ELSE LET i == CHOOSE j \in 1..Len(s) : s[j] = sep /\ \A k \in 1..(j - 1) : s[k] # sep IN
         <<SubSeq(s, 1, i - 1)>> \o Split(SubSeq(s, i + 1, Len(s)), sep)

StartsWith(key, prefix) ==
    Len(prefix) <= Len(key) /\ SubSeq(key, 1, Len(prefix)) = prefix

(* entries a prefix selects in a key space: the exact key if stored, else   *)
(* any stored key it is a prefix of                                         *)
Candidates(entries, version, prefix) ==
    LET exact == {e \in entries : e.version = version /\ e.key = prefix} IN
    IF exact # {} THEN exact
    ELSE {e \in entries : e.version = version /\ StartsWith(e.key, prefix)}

RECURSIVE Matches(_, _, _)
(* the entries of the first prefix, in the order sent, that selects any *)
Matches(entries, version, prefixes) ==
    IF Len(prefixes) = 0 THEN {}
    ELSE IF Candidates(entries, version, prefixes[1]) # {}
         THEN Candidates(entries, version, prefixes[1])
         ELSE Matches(entries, version, Tail(prefixes))

Unchanged(resp) ==
    [resp |-> resp, store |-> store, reservations |-> reservations, next_id |-> next_id]

(* what a service that follows no rule may answer: any status, any          *)
(* Retry-After, a body of the expected shape or not, or no answer at all    *)
ArbitraryBodies(req) ==
    IF IsLookup(req)
    THEN {GarbageBody} \cup {HitBody(k, Scope, LocationOf("v1", k)) : k \in Keys}
    ELSE IF IsDownload(req)
         THEN {BrokenBody, GarbageBody} \cup {BytesBody(b) : b \in SeqsUpTo(ByteValues, 1)}
    ELSE IF IsReserve(req) THEN {GarbageBody} \cup {ReservedBody(i) : i \in CacheIds}
    ELSE {EmptyBody}

ServeArbitrary(req) ==
    {Unchanged(None)} \cup
    {Unchanged(Some(Response(s, h, b))) :
        s \in Statuses, h \in RetryAfterHeaders, b \in ArbitraryBodies(req)}

(* a service that follows no rule and answers from a short list: nothing,   *)
(* 429 with Retry-After: 7, or 200, 204 or 503 with any of the bodies       *)
ServeErratic(req) ==
    {Unchanged(None), Unchanged(Some(Response(429, Some(<<"7">>), EmptyBody)))} \cup
    {Unchanged(Some(Response(s, None, b))) :
        s \in {200, 204, 503}, b \in ArbitraryBodies(req)}

ServeLookup(req) ==
    LET q == Unwrap(req.query)
        m == Matches(store, q.version, Split(q.keys, ","))
    IN IF m = {} THEN {Unchanged(Some(Response(204, None, EmptyBody)))}
       ELSE {Unchanged(Some(Response(200, None,
                HitBody(e.key, Scope, LocationOf(e.version, e.key))))) : e \in m}

ServeDownload(req) ==
    LET at == {e \in store : LocationOf(e.version, e.key) = Unwrap(req.url.location)} IN
    IF at = {} THEN {Unchanged(Some(Response(404, None, EmptyBody)))}
    ELSE {Unchanged(Some(Response(200, None, BytesBody(e.bytes)))) : e \in at}

ServeReserve(req) ==
    LET b == Unwrap(req.body) IN
    IF next_id > MaxCacheId THEN {Unchanged(Some(Response(503, None, EmptyBody)))}
    ELSE {[resp |-> Some(Response(201, None, ReservedBody(next_id))),
           store |-> store,
           reservations |-> reservations \cup
               {[id |-> next_id, key |-> b.key, version |-> b.version, uploaded |-> None]},
           next_id |-> next_id + 1]}

ServeUpload(req) ==
    LET rs == {r \in reservations : r.id = Unwrap(req.url.id)}
        data == Unwrap(req.body).bytes
    IN IF rs = {} \/ Len(data) = 0
          \/ req.content_range # Some(<<"bytes ", 0, "-", Len(data) - 1, "/*">>)
       THEN {Unchanged(Some(Response(400, None, EmptyBody)))}
       ELSE {[resp |-> Some(Response(204, None, EmptyBody)),
              store |-> store,
              reservations |-> (reservations \ rs) \cup
                  {[r EXCEPT !.uploaded = Some(data)] : r \in rs},
              next_id |-> next_id]}

ServeFinalize(req) ==
    LET rs == {r \in reservations : r.id = Unwrap(req.url.id)}
        size == Unwrap(req.body).size
        Bytes(r) == IF IsSome(r.uploaded) THEN Unwrap(r.uploaded) ELSE <<>>
    IN IF rs = {} \/ \E r \in rs : Len(Bytes(r)) # size
       THEN {Unchanged(Some(Response(400, None, EmptyBody)))}
       ELSE {[resp |-> Some(Response(204, None, EmptyBody)),
              store |-> {e \in store : \A r \in rs : e.version # r.version \/ e.key # r.key}
                        \cup {[version |-> r.version, key |-> r.key, bytes |-> Bytes(r)] : r \in rs},
              reservations |-> reservations \ rs,
              next_id |-> next_id]}

ServeProtocol(req) ==
    IF IsLookup(req) THEN ServeLookup(req)
    ELSE IF IsDownload(req) THEN ServeDownload(req)
    ELSE IF IsReserve(req) THEN ServeReserve(req)
    ELSE IF IsUpload(req) THEN ServeUpload(req)
    ELSE ServeFinalize(req)

(* the outcomes of one request: the answer (None: the request failed on the *)
(* network) and the service state after it                                  *)
(* a service that follows the wire protocol behind a network that may lose  *)
(* a request or answer it with 429 and Retry-After: 7                      *)
ServeFaulty(req) ==
    ServeProtocol(req) \cup
    {Unchanged(None), Unchanged(Some(Response(429, Some(<<"7">>), EmptyBody)))}

Serve(req) ==
    IF server = "protocol" THEN ServeProtocol(req)
    ELSE IF server = "faulty" THEN ServeFaulty(req)
    ELSE IF server = "erratic" THEN ServeErratic(req)
    ELSE ServeArbitrary(req)

Served(o) ==
    /\ store' = o.store
    /\ reservations' = o.reservations
    /\ next_id' = o.next_id

(* ------------------------------------------------------------------ *)
(* The client: what each call does between two awaits                  *)
(* ------------------------------------------------------------------ *)
(* a step of a call: it returns (ret), or it sends a request (send) and     *)
(* awaits the answer, or it awaits the body of the answer whose status it   *)
(* has seen; cache_id and found are the locals it binds                     *)
Returns(r) == [ret |-> Some(r), send |-> None, cache_id |-> None, found |-> None]
Sends(req, id, hit) == [ret |-> None, send |-> Some(req), cache_id |-> id, found |-> hit]
ReadsBody == [ret |-> None, send |-> None, cache_id |-> None, found |-> None]

RequestFailed == Err(ReqwestError("request", 0))

(* a variant that decodes the body before it classifies the status *)
get_url_result_decode_first(o) ==
    IF ~IsSome(o) THEN RequestFailed
    ELSE LET response == Unwrap(o) IN
         IF response.status = NO_CONTENT THEN Ok(None)
         ELSE LET parsed == json_GetResponse(response.body) IN
              IF ~IsSome(parsed) THEN Err(ReqwestError("decode", 0))
              ELSE LET checked == error_for_response(response) IN
                   IF IsErr(checked) THEN checked ELSE Ok(parsed)

(* get_url, from the answer to the lookup request on *)
get_url_result(o) ==
    IF ~IsSome(o) THEN RequestFailed
    ELSE LET response == Unwrap(o) IN
         IF response.status = NO_CONTENT THEN Ok(None)
         ELSE LET checked == error_for_response(response) IN
              IF IsErr(checked) THEN checked
              ELSE LET parsed == json_GetResponse(checked.val.body) IN
                   IF IsSome(parsed) THEN Ok(parsed)
                   ELSE Err(ReqwestError("decode", 0))

(* get_url reaches json().await: the request was answered, not with 204,    *)
(* and the status was classified as no error                                *)
get_url_awaits_json(o) ==
    /\ IsSome(o)
    /\ Unwrap(o).status # NO_CONTENT
    /\ IsOk(error_for_response(Unwrap(o)))

(* a variant that downloads from a location it builds itself, not from the  *)
(* one the lookup returned                                                  *)
get_bytes_after_lookup_own_location(o) ==
    LET r == get_url_result(o) IN
    IF IsErr(r) THEN Returns(r)
    ELSE IF IsSome(r.val)
         THEN Sends(DownloadRequest(LocationOf("v1", <<"a">>)), None, r.val)
         ELSE Returns(Ok(None))

(* get_bytes, from the return of get_url on *)
get_bytes_after_lookup(o) ==
    LET r == get_url_result(o) IN
    IF IsErr(r) THEN Returns(r)
    ELSE IF IsSome(r.val)
         THEN Sends(DownloadRequest(Unwrap(r.val).location), None, r.val)
         ELSE Returns(Ok(None))

(* get_bytes reaches bytes().await: the download request was answered *)
get_bytes_awaits_bytes(o) == IsSome(o)

(* get_bytes, from the answer to the download request on *)
get_bytes_after_download(hit, o) ==
    IF ~IsSome(o) THEN Returns(RequestFailed)
    ELSE LET bytes == bytes_of(Unwrap(o).body) IN
         IF IsSome(bytes) THEN Returns(Ok(Some([hit |-> hit, bytes |-> Unwrap(bytes)])))
         ELSE Returns(Err(ReqwestError("body", 0)))

(* put_bytes reaches json().await: the reserve request was answered and the *)
(* status was classified as no error                                        *)
put_bytes_awaits_json(o) == IsSome(o) /\ IsOk(error_for_response(Unwrap(o)))

(* a variant that decodes the reserve body without classifying the status *)
put_bytes_after_reserve_unchecked(c, o) ==
    IF ~IsSome(o) THEN Returns(RequestFailed)
    ELSE LET parsed == json_ReserveResponse(Unwrap(o).body) IN
         IF ~IsSome(parsed) THEN Returns(Err(ReqwestError("decode", 0)))
         ELSE LET id == Unwrap(parsed).cache_id IN
              IF Len(c.data) # 0
              THEN Sends(UploadRequest(id, c.data), Some(id), None)
              ELSE Sends(FinalizeRequest(id, c.data), Some(id), None)

(* a variant that uploads whatever the payload length *)
put_bytes_after_reserve_always_upload(c, o) ==
    IF ~IsSome(o) THEN Returns(RequestFailed)
    ELSE LET checked == error_for_response(Unwrap(o)) IN
         IF IsErr(checked) THEN Returns(checked)
         ELSE LET parsed == json_ReserveResponse(checked.val.body) IN
              IF ~IsSome(parsed) THEN Returns(Err(ReqwestError("decode", 0)))
              ELSE LET id == Unwrap(parsed).cache_id IN
                   Sends(UploadRequest(id, c.data), Some(id), None)

(* a variant of a client that keeps the RateLimit error a call returned in  *)
(* a field of the shared instance and, while it is held, fails a call with  *)
(* it instead of sending the request after the reserve                      *)
put_bytes_after_reserve_backoff(c, o) ==
    LET limited == {Unwrap(result[t]) :
                       t \in {u \in TaskIds : /\ IsSome(result[u])
                                               /\ IsErr(Unwrap(result[u]))
                                               /\ Unwrap(result[u]).err.kind = "RateLimit"}}
    IN IF limited # {} THEN Returns(CHOOSE r \in limited : TRUE)
       ELSE IF ~IsSome(o) THEN Returns(RequestFailed)
       ELSE LET checked == error_for_response(Unwrap(o)) IN
            IF IsErr(checked) THEN Returns(checked)
            ELSE LET parsed == json_ReserveResponse(checked.val.body) IN
                 IF ~IsSome(parsed) THEN Returns(Err(ReqwestError("decode", 0)))
                 ELSE LET id == Unwrap(parsed).cache_id IN
                      IF Len(c.data) # 0
                      THEN Sends(UploadRequest(id, c.data), Some(id), None)
                      ELSE Sends(FinalizeRequest(id, c.data), Some(id), None)

(* put_bytes, from the answer to the reserve request on *)
put_bytes_after_reserve(c, o) ==
    IF ~IsSome(o) THEN Returns(RequestFailed)
    ELSE LET checked == error_for_response(Unwrap(o)) IN
         IF IsErr(checked) THEN Returns(checked)
         ELSE LET parsed == json_ReserveResponse(checked.val.body) IN
              IF ~IsSome(parsed) THEN Returns(Err(ReqwestError("decode", 0)))
              ELSE LET id == Unwrap(parsed).cache_id IN
                   IF Len(c.data) # 0
                   THEN Sends(UploadRequest(id, c.data), Some(id), None)
                   ELSE Sends(FinalizeRequest(id, c.data), Some(id), None)

(* a variant that finalizes whatever the upload's status *)
put_bytes_after_upload_unchecked(c, id, o) ==
    IF ~IsSome(o) THEN Returns(RequestFailed)
    ELSE Sends(FinalizeRequest(id, c.data), Some(id), None)

(* a variant that sends the upload again when it was rate limited *)
put_bytes_after_upload_retry(c, id, o) ==
    IF ~IsSome(o) THEN Returns(RequestFailed)
    ELSE LET checked == error_for_response(Unwrap(o)) IN
         IF IsErr(checked)
         THEN IF checked.err.kind = "RateLimit"
              THEN Sends(UploadRequest(id, c.data), Some(id), None)
              ELSE Returns(checked)
         ELSE Sends(FinalizeRequest(id, c.data), Some(id), None)

(* a variant of a client that keeps the cache id in a field of the shared   *)
(* instance: it finalizes the id parsed last by any call                    *)
put_bytes_after_upload_shared_id(c, id, o) ==
    LET parsed == {Unwrap(cache_id[q]) : q \in {t \in TaskIds : IsSome(cache_id[t])}}
        last == CHOOSE i \in parsed : \A j \in parsed : j <= i
    IN IF ~IsSome(o) THEN Returns(RequestFailed)
       ELSE LET checked == error_for_response(Unwrap(o)) IN
            IF IsErr(checked) THEN Returns(checked)
            ELSE Sends(FinalizeRequest(last, c.data), Some(last), None)

(* put_bytes, from the answer to the upload request on *)
put_bytes_after_upload(c, id, o) ==
    IF ~IsSome(o) THEN Returns(RequestFailed)
    ELSE LET checked == error_for_response(Unwrap(o)) IN
         IF IsErr(checked) THEN Returns(checked)
         ELSE Sends(FinalizeRequest(id, c.data), Some(id), None)

(* put_bytes, from the answer to the finalize request on *)
put_bytes_after_finalize(o) ==
    IF ~IsSome(o) THEN Returns(RequestFailed)
    ELSE LET checked == error_for_response(Unwrap(o)) IN
         IF IsErr(checked) THEN Returns(checked)
         ELSE Returns(Ok("()"))

Awaits(req) ==
    IF IsLookup(req) THEN "lookup"
    ELSE IF IsDownload(req) THEN "download"
    ELSE IF IsReserve(req) THEN "reserve"
    ELSE IF IsUpload(req) THEN "upload"
    ELSE "finalize"

LastSent(p) == sent[p][Len(sent[p])]
LastRcvd(p) == rcvd[p][Len(rcvd[p])]
BodyStates == {"lookup_body", "download_body", "reserve_body"}
AwaitsBody(req) ==
    IF IsLookup(req) THEN "lookup_body"
    ELSE IF IsDownload(req) THEN "download_body"
    ELSE "reserve_body"

(* task p starts a call: its first request goes out *)
Start(p, c, req) ==
    /\ p \in tasks
    /\ pc[p] = "idle"
    /\ calls_left > 0
    /\ calls_left' = calls_left - 1
    /\ call' = [call EXCEPT ![p] = c]
    /\ sent' = [sent EXCEPT ![p] = <<req>>]
    /\ pc' = [pc EXCEPT ![p] = Awaits(req)]
    /\ UNCHANGED <<tasks, server, rcvd, cache_id, found, result, last_put,
                   service_vars, classify_vars, config_vars>>

(* task p takes step st: it returns, sends its next request, or goes on to  *)
(* await the body of the answer to its last request                         *)
Takes(p, st) ==
    IF IsSome(st.ret)
    THEN /\ pc' = [pc EXCEPT ![p] = "returned"]
         /\ result' = [result EXCEPT ![p] = st.ret]
         /\ UNCHANGED <<sent, cache_id, found>>
    ELSE IF IsSome(st.send)
    THEN /\ pc' = [pc EXCEPT ![p] = Awaits(Unwrap(st.send))]
         /\ sent' = [sent EXCEPT ![p] = Append(@, Unwrap(st.send))]
         /\ cache_id' = [cache_id EXCEPT ![p] = st.cache_id]
         /\ found' = [found EXCEPT ![p] = st.found]
         /\ UNCHANGED result
    ELSE /\ pc' = [pc EXCEPT ![p] = AwaitsBody(LastSent(p))]
         /\ UNCHANGED <<sent, cache_id, found, result>>

(* send().await is ready: task p resumes with the outcome o of its last     *)
(* request, status and headers, and takes step st                           *)
Resume(p, o, st) ==
    /\ Served(o)
    /\ rcvd' = [rcvd EXCEPT ![p] = Append(@, o.resp)]
    /\ Takes(p, st)
    /\ UNCHANGED <<tasks, server, calls_left, call, last_put, classify_vars, config_vars>>

(* json().await or bytes().await is ready: task p resumes with the body of  *)
(* the answer and takes step st                                             *)
ResumeBody(p, st) ==
    /\ Takes(p, st)
    /\ UNCHANGED <<tasks, server, calls_left, call, rcvd, last_put, service_vars,
                   classify_vars, config_vars>>

get_url_call(p) ==
    /\ pc[p] = "idle"
    /\ \E key_space \in KeySpaces, key_prefixes \in PrefixLists :
        Start(p, GetUrlCall(key_space, key_prefixes), LookupRequest(key_space, key_prefixes))

get_url_response(p) ==
    /\ call[p].fn = "get_url" /\ pc[p] = "lookup"
    /\ \E o \in Serve(LastSent(p)) :
        Resume(p, o, IF get_url_awaits_json(o.resp) THEN ReadsBody
                     ELSE Returns(get_url_result(o.resp)))

get_url_body(p) ==
    /\ call[p].fn = "get_url" /\ pc[p] = "lookup_body"
    /\ ResumeBody(p, Returns(get_url_result(LastRcvd(p))))

get_bytes_call(p) ==
    /\ pc[p] = "idle"
    /\ \E key_space \in KeySpaces, keys \in PrefixLists :
        Start(p, GetBytesCall(key_space, keys), LookupRequest(key_space, keys))

get_bytes_lookup_response(p) ==
    /\ call[p].fn = "get_bytes" /\ pc[p] = "lookup"
    /\ \E o \in Serve(LastSent(p)) :
        Resume(p, o, IF get_url_awaits_json(o.resp) THEN ReadsBody
                     ELSE get_bytes_after_lookup(o.resp))

get_bytes_lookup_body(p) ==
    /\ call[p].fn = "get_bytes" /\ pc[p] = "lookup_body"
    /\ ResumeBody(p, get_bytes_after_lookup(LastRcvd(p)))

get_bytes_download_response(p) ==
    /\ call[p].fn = "get_bytes" /\ pc[p] = "download"
    /\ \E o \in Serve(LastSent(p)) :
        Resume(p, o, IF get_bytes_awaits_bytes(o.resp) THEN ReadsBody
                     ELSE get_bytes_after_download(Unwrap(found[p]).hit, o.resp))

get_bytes_download_body(p) ==
    /\ call[p].fn = "get_bytes" /\ pc[p] = "download_body"
    /\ ResumeBody(p, get_bytes_after_download(Unwrap(found[p]).hit, LastRcvd(p)))

put_bytes_call(p) ==
    /\ pc[p] = "idle"
    /\ \E key_space \in KeySpaces, key \in Keys, data \in Payloads :
        Start(p, PutBytesCall(key_space, key, data), ReserveRequest(key_space, key))

put_bytes_reserve_response(p) ==
    /\ call[p].fn = "put_bytes" /\ pc[p] = "reserve"
    /\ \E o \in Serve(LastSent(p)) :
        Resume(p, o, IF put_bytes_awaits_json(o.resp) THEN ReadsBody
                     ELSE put_bytes_after_reserve(call[p], o.resp))

put_bytes_reserve_body(p) ==
    /\ call[p].fn = "put_bytes" /\ pc[p] = "reserve_body"
    /\ ResumeBody(p, put_bytes_after_reserve(call[p], LastRcvd(p)))

put_bytes_upload_response(p) ==
    /\ call[p].fn = "put_bytes" /\ pc[p] = "upload"
    /\ \E o \in Serve(LastSent(p)) :
        Resume(p, o, put_bytes_after_upload(call[p], Unwrap(cache_id[p]), o.resp))

put_bytes_finalize_response(p) ==
    /\ call[p].fn = "put_bytes" /\ pc[p] = "finalize"
    /\ \E o \in Serve(LastSent(p)) : Resume(p, o, put_bytes_after_finalize(o.resp))

(* the first request of a call, from its arguments *)
FirstRequest(c) ==
    IF c.fn = "put_bytes" THEN ReserveRequest(c.key_space, c.key)
    ELSE LookupRequest(c.key_space, c.key_prefixes)

(* task q calls the function another task is in, or has returned from, with *)
(* the same arguments: its first request goes out                           *)
same_call(q) ==
    /\ pc[q] = "idle"
    /\ q \in tasks
    /\ \E p \in tasks \ {q} :
        /\ call[p] # NoCall
        /\ call' = [call EXCEPT ![q] = call[p]]
        /\ sent' = [sent EXCEPT ![q] = <<FirstRequest(call[p])>>]
        /\ pc' = [pc EXCEPT ![q] = Awaits(FirstRequest(call[p]))]
    /\ UNCHANGED <<tasks, server, calls_left, rcvd, cache_id, found, result, last_put,
                   service_vars, classify_vars, config_vars>>

(* the caller takes the result; the task is free for the next call *)
caller_return(p) ==
    /\ pc[p] = "returned"
    /\ last_put' = IF call[p].fn = "put_bytes" /\ IsOk(Unwrap(result[p]))
                   THEN Some([key_space |-> call[p].key_space, key |-> call[p].key,
                              data |-> call[p].data])
                   ELSE None
    /\ pc' = [pc EXCEPT ![p] = "idle"]
    /\ call' = [call EXCEPT ![p] = NoCall]
    /\ sent' = [sent EXCEPT ![p] = <<>>]
    /\ rcvd' = [rcvd EXCEPT ![p] = <<>>]
    /\ cache_id' = [cache_id EXCEPT ![p] = None]
    /\ found' = [found EXCEPT ![p] = None]
    /\ result' = [result EXCEPT ![p] = None]
    /\ UNCHANGED <<tasks, server, calls_left, service_vars, classify_vars, config_vars>>

(* ------------------------------------------------------------------ *)
(* Specifications                                                      *)
(* ------------------------------------------------------------------ *)
InitClient ==
    /\ pc = [p \in TaskIds |-> "idle"]
    /\ call = [p \in TaskIds |-> NoCall]
    /\ sent = [p \in TaskIds |-> <<>>]
    /\ rcvd = [p \in TaskIds |-> <<>>]
    /\ cache_id = [p \in TaskIds |-> None]
    /\ found = [p \in TaskIds |-> None]
    /\ result = [p \in TaskIds |-> None]
    /\ last_put = None

InitService ==
    /\ store = {}
    /\ reservations = {}
    /\ next_id = 1

NoClassify ==
    /\ cl_response = Response(200, None, EmptyBody)
    /\ cl_result = None
    /\ cl_retry_after = None

(* the Cache instance was built by Cache::new from a complete environment *)
Constructed ==
    /\ env = [ACTIONS_RUNTIME_TOKEN |-> Present(<<"t">>),
              ACTIONS_CACHE_URL |-> Present(<<"http://h", "/">>)]
    /\ user_agent = <<"c", "u">>
    /\ cache = Some(new(user_agent))

(* one call on a fresh client, the service answering arbitrarily *)
Init ==
    /\ tasks = {1}
    /\ server = "arbitrary"
    /\ calls_left = 1
    /\ InitClient /\ InitService /\ NoClassify /\ Constructed

Next ==
    \E p \in TaskIds :
        \/ get_url_call(p)
        \/ get_url_response(p)
        \/ get_url_body(p)
        \/ get_bytes_call(p)
        \/ get_bytes_lookup_response(p)
        \/ get_bytes_lookup_body(p)
        \/ get_bytes_download_response(p)
        \/ get_bytes_download_body(p)
        \/ put_bytes_call(p)
        \/ put_bytes_reserve_response(p)
        \/ put_bytes_reserve_body(p)
        \/ put_bytes_upload_response(p)
        \/ put_bytes_finalize_response(p)
        \/ caller_return(p)

Spec == Init /\ [][Next]_vars

(* up to MaxCalls calls, one after the other, the service following the     *)
(* wire protocol                                                            *)
InitProtocol ==
    /\ tasks = {1}
    /\ server = "protocol"
    /\ calls_left = MaxCalls
    /\ InitClient /\ InitService /\ NoClassify /\ Constructed

SpecProtocol == InitProtocol /\ [][Next]_vars

(* MaxTasks tasks share the instance and make MaxTasks calls between them,  *)
(* in any interleaving, the service following the wire protocol behind a    *)
(* faulty network                                                           *)
InitConcurrent ==
    /\ tasks = TaskIds
    /\ server = "faulty"
    /\ calls_left = MaxTasks
    /\ InitClient /\ InitService /\ NoClassify /\ Constructed

SpecConcurrent == InitConcurrent /\ [][Next]_vars

(* MaxTasks tasks share the instance: one makes a call with any arguments,  *)
(* the others repeat it with the same arguments, at any time and as often   *)
(* as they like, while the service answers each request as it pleases       *)
InitShared ==
    /\ tasks = TaskIds
    /\ server = "erratic"
    /\ calls_left = 1
    /\ InitClient /\ InitService /\ NoClassify /\ Constructed

NextShared == Next \/ \E q \in TaskIds : same_call(q)

SpecShared == InitShared /\ [][NextShared]_vars

(* ------------------------------------------------------------------ *)
(* error_for_response on its own: every status class, every short      *)
(* Retry-After text over HeaderChars, and two texts beyond u64::MAX     *)
(* ------------------------------------------------------------------ *)
ClassifyStatuses == {101, 200, 204, 299, 300, 304, 399, 400, 404, 429, 499, 500, 503, 599}
HeaderChars == {"0", "1", "7", "9", "+", "-", " ", "x", "\\x80"}
(* 18446744073709551616 = u64::MAX + 1, and a 21-digit number *)
TooLargeHeaders ==
    {SubSeq(U64MaxDigits, 1, 19) \o <<"6">>, U64MaxDigits \o <<"0">>}
HeaderValues == SeqsUpTo(HeaderChars, MaxHeaderLen) \cup TooLargeHeaders
ClassifyInputs ==
    {Response(s, h, EmptyBody) :
        s \in ClassifyStatuses, h \in {None} \cup {Some(v) : v \in HeaderValues}}

InitClassify ==
    /\ tasks = {}
    /\ server = "arbitrary"
    /\ calls_left = 0
    /\ InitClient /\ InitService /\ Constructed
    /\ cl_response \in ClassifyInputs
    /\ cl_result = None
    /\ cl_retry_after = None

classify ==
    /\ cl_result = None
    /\ cl_result' = Some(error_for_response(cl_response))
    /\ UNCHANGED <<tasks, server, calls_left, client_vars, last_put, service_vars,
                   cl_response, cl_retry_after, config_vars>>

SpecClassify == InitClassify /\ [][classify]_vars

(* ------------------------------------------------------------------ *)
(* Cache::new under every environment, then one call on the instance   *)
(* if there is one, the service answering arbitrarily                  *)
(* ------------------------------------------------------------------ *)
EnvTokens == {NotPresent, NotUnicode, Present(<<"t">>)}
EnvUrls == {NotPresent, NotUnicode, Present(<<"http://h">>), Present(<<"http://h", "/">>)}
UserAgents == {<<"c", "u">>, <<"c", "\\n">>}

InitNew ==
    /\ tasks = {}
    /\ server = "arbitrary"
    /\ calls_left = 0
    /\ InitClient /\ InitService /\ NoClassify
    /\ env \in [ACTIONS_RUNTIME_TOKEN : EnvTokens, ACTIONS_CACHE_URL : EnvUrls]
    /\ user_agent \in UserAgents
    /\ cache = None

(* the caller constructs the instance; with an instance it may call *)
Cache_new ==
    /\ cache = None
    /\ cache' = Some(new(user_agent))
    /\ IF IsOk(new(user_agent))
       THEN tasks' = {1} /\ calls_left' = 1
       ELSE UNCHANGED <<tasks, calls_left>>
    /\ UNCHANGED <<server, client_vars, last_put, service_vars, classify_vars,
                   env, user_agent>>

NextNew == Cache_new \/ Next

SpecNew == InitNew /\ [][NextNew]_vars

(* ------------------------------------------------------------------ *)
(* Error::retry_after on every error the crate produces: those of      *)
(* error_for_response and those of Cache::new                          *)
(* ------------------------------------------------------------------ *)
(* a variant that reports a wait of zero for an error that carries none *)
retry_after_or_zero(self) ==
    IF self.kind = "RateLimit" THEN Some(self.retry_after) ELSE Some(0)

(* Error::retry_after *)
retry_after(self) ==
    IF self.kind = "RateLimit" THEN Some(self.retry_after) ELSE None

InitErrors ==
    /\ tasks = {}
    /\ server = "arbitrary"
    /\ calls_left = 0
    /\ InitClient /\ InitService
    /\ cl_result = None
    /\ cl_retry_after = None
    /\ \/ cl_response \in ClassifyInputs /\ Constructed
       \/ /\ cl_response = Response(200, None, EmptyBody)
          /\ env \in [ACTIONS_RUNTIME_TOKEN : EnvTokens, ACTIONS_CACHE_URL : EnvUrls]
          /\ user_agent \in UserAgents
          /\ cache = None

(* the errors the caller holds *)
ErrorsReturned ==
    {r.err : r \in {x \in {Unwrap(y) : y \in {cl_result, cache} \ {None}} : IsErr(x)}}

(* the caller asks an error it holds for the wait *)
retry_after_call ==
    /\ cl_retry_after = None
    /\ \E e \in ErrorsReturned :
        cl_retry_after' = Some([error |-> e, returned |-> retry_after(e)])
    /\ UNCHANGED <<tasks, server, calls_left, client_vars, last_put, service_vars,
                   cl_response, cl_result, config_vars>>

NextErrors == classify \/ Cache_new \/ retry_after_call

SpecErrors == InitErrors /\ [][NextErrors]_vars

(* ------------------------------------------------------------------ *)
(* Properties                                                          *)
(* ------------------------------------------------------------------ *)
(* the success range of HTTP statuses, 2xx *)
is_success(s) == 200 <= s /\ s <= 299
PutTask(p) == call[p].fn = "put_bytes"
Returned(p) == pc[p] = "returned"
Answered(p, i) == i <= Len(rcvd[p]) /\ IsSome(rcvd[p][i])
Answer(p, i) == Unwrap(rcvd[p][i])
(* the call is done with answer i: it does not still await its body *)
Settled(p, i) == i < Len(rcvd[p]) \/ pc[p] \notin BodyStates
ErrorStatus(s) == is_client_error(s) \/ is_server_error(s)
ReserveParsed(p) == Answered(p, 1) /\ IsSome(json_ReserveResponse(Answer(p, 1).body))
ParsedId(p) == Unwrap(json_ReserveResponse(Answer(p, 1).body)).cache_id

(* C1: put_bytes returns success only if a finalize request was sent in     *)
(* that call and its response had a status in the success range (2xx).      *)
C1_SuccessOnlyAfterFinalizeSuccess ==
    \A p \in TaskIds :
        (PutTask(p) /\ Returned(p) /\ IsOk(Unwrap(result[p]))) =>
            \E i \in 1..Len(sent[p]) :
                /\ IsFinalize(sent[p][i])
                /\ Answered(p, i)
                /\ is_success(Answer(p, i).status)

(* C2: within one put_bytes call the upload request is sent only after the  *)
(* reserve response was received and its cache id parsed, and the finalize  *)
(* request only after the upload response was received and classified as    *)
(* success, or, for an empty payload, right after the parsed reserve.       *)
C2_PhasesSequential ==
    \A p \in TaskIds : PutTask(p) =>
        \A i \in 1..Len(sent[p]) :
            /\ Len(rcvd[p]) >= i - 1
            /\ IsReserve(sent[p][i]) => i = 1
            /\ IsUpload(sent[p][i]) =>
                /\ i = 2 /\ IsReserve(sent[p][1])
                /\ ReserveParsed(p)
                /\ sent[p][i].url.id = Some(ParsedId(p))
            /\ IsFinalize(sent[p][i]) =>
                /\ ReserveParsed(p)
                /\ sent[p][i].url.id = Some(ParsedId(p))
                /\ \/ Len(call[p].data) = 0 /\ i = 2
                   \/ /\ Len(call[p].data) > 0 /\ i = 3
                      /\ IsUpload(sent[p][2])
                      /\ Answered(p, 2)
                      /\ ~ErrorStatus(Answer(p, 2).status)

C2_Witness ==
    \E p \in TaskIds :
        /\ PutTask(p) /\ Len(sent[p]) = 3
        /\ IsUpload(sent[p][2]) /\ IsFinalize(sent[p][3])

PhaseFailed(p, i) ==
    \/ ~IsSome(rcvd[p][i])
    \/ ErrorStatus(Answer(p, i).status)
    \/ /\ IsReserve(sent[p][i]) /\ Settled(p, i)
       /\ ~IsSome(json_ReserveResponse(Answer(p, i).body))

(* C3: if a phase of put_bytes fails (no answer, an error status, or a      *)
(* reserve body that was read and does not decode) the call returns an      *)
(* error and the failed request is the last one it sent; the call sends     *)
(* nothing but one reserve,                                                 *)
(* at most one upload and at most one finalize request.                     *)
C3_FailureAborts ==
    \A p \in TaskIds : PutTask(p) =>
        /\ \A i \in 1..Len(rcvd[p]) :
            PhaseFailed(p, i) =>
                /\ Returned(p)
                /\ IsErr(Unwrap(result[p]))
                /\ Len(sent[p]) = i
        /\ Len(sent[p]) <= 3
        /\ \A i \in 1..Len(sent[p]) :
            /\ IsReserve(sent[p][i]) \/ IsUpload(sent[p][i]) \/ IsFinalize(sent[p][i])
            /\ \A j \in 1..Len(sent[p]) : Awaits(sent[p][i]) = Awaits(sent[p][j]) => i = j

C3_Witness ==
    \E p \in TaskIds :
        /\ PutTask(p) /\ Returned(p) /\ IsErr(Unwrap(result[p]))
        /\ Len(sent[p]) = 2 /\ IsUpload(sent[p][2])
        /\ Answered(p, 2) /\ Answer(p, 2).status = 503

RECURSIVE Decimal(_)
(* the decimal numeral of n *)
Decimal(n) ==
    IF n < 10 THEN <<DigitChars[n + 1]>>
    ELSE Decimal(n \div 10) \o <<DigitChars[(n % 10) + 1]>>

Zeros(k) == [i \in 1..k |-> "0"]
(* the texts that denote the non-negative integer n: its decimal numeral,   *)
(* possibly after leading zeros, possibly after one "+"                     *)
Numerals(n) ==
    {sign \o Zeros(k) \o Decimal(n) : sign \in {<<>>, <<"+">>}, k \in 0..MaxHeaderLen}
(* every header text of the model denotes at most one integer, and one      *)
(* below 10^MaxHeaderLen: the longer texts are beyond u64::MAX              *)
NumeralTable ==
    UNION {{<<v, n>> : v \in Numerals(n)} : n \in 0..(10 ^ MaxHeaderLen - 1)}
DenotedBy(h) ==
    IF IsSome(h)
    THEN {n \in 0..(10 ^ MaxHeaderLen - 1) : <<Unwrap(h), n>> \in NumeralTable}
    ELSE {}

(* C4: error_for_response yields RateLimit carrying n exactly when the      *)
(* status is 4xx/5xx and Retry-After is present and denotes the             *)
(* non-negative integer n; an error status with an absent or unparsable     *)
(* Retry-After yields the status error; a success status passes the         *)
(* response through unchanged; 429 or 503 with "7" yields RateLimit 7.      *)
C4_Classification ==
    IsSome(cl_result) =>
        LET r == Unwrap(cl_result)
            s == cl_response.status
            ns == DenotedBy(cl_response.retry_after)
        IN /\ (ErrorStatus(s) /\ ns # {}) =>
                  \E n \in ns : IsErr(r) /\ r.err = RateLimitError(n, s)
           /\ (IsErr(r) /\ r.err.kind = "RateLimit") =>
                  ErrorStatus(s) /\ r.err.retry_after \in ns
           /\ (ErrorStatus(s) /\ ns = {}) =>
                  IsErr(r) /\ r.err = ReqwestError("status", s)
           /\ is_success(s) => IsOk(r) /\ r.val = cl_response
           /\ (s \in {429, 503} /\ cl_response.retry_after = Some(<<"7">>)) =>
                  IsErr(r) /\ r.err.kind = "RateLimit" /\ r.err.retry_after = 7

C4_Witness ==
    /\ cl_response.status = 503
    /\ cl_response.retry_after = Some(<<"7">>)
    /\ cl_result = Some(Err(RateLimitError(7, 503)))

(* C5: whatever the operation (lookup, download, reserve, upload,           *)
(* finalize), an answer with an error status and a parseable Retry-After    *)
(* makes the public call return the RateLimit error carrying that value,    *)
(* once the call is done with the answer.                                   *)
C5_RateLimitEveryOperation ==
    \A p \in TaskIds : \A i \in 1..Len(rcvd[p]) :
        (/\ IsSome(rcvd[p][i])
         /\ Settled(p, i)
         /\ ErrorStatus(Answer(p, i).status)
         /\ DenotedBy(Answer(p, i).retry_after) # {}) =>
            /\ Returned(p)
            /\ IsErr(Unwrap(result[p]))
            /\ Unwrap(result[p]).err.kind = "RateLimit"
            /\ Unwrap(result[p]).err.retry_after \in DenotedBy(Answer(p, i).retry_after)

(* C6: get_bytes returns a hit with bytes only if the lookup and the        *)
(* download were both answered without an error status: a download answer   *)
(* with an error status is never returned as the cached payload.            *)
C6_DownloadErrorNeverPayload ==
    \A p \in TaskIds :
        (/\ call[p].fn = "get_bytes" /\ Returned(p)
         /\ IsOk(Unwrap(result[p])) /\ IsSome(Unwrap(result[p]).val)) =>
            /\ Answered(p, 1) /\ ~ErrorStatus(Answer(p, 1).status)
            /\ Answered(p, 2) /\ ~ErrorStatus(Answer(p, 2).status)

(* C7: get_url returns "no match" exactly when the lookup status is 204, a  *)
(* hit with its archive location only when the status is a success status   *)
(* other than 204 and the body decodes, and an error in every other case.   *)
C7_GetUrlOutcomes ==
    \A p \in TaskIds : (call[p].fn = "get_url" /\ Returned(p)) =>
        LET r == Unwrap(result[p]) IN
        /\ (IsOk(r) /\ r.val = None) <=> (Answered(p, 1) /\ Answer(p, 1).status = NO_CONTENT)
        /\ (IsOk(r) /\ r.val # None) =>
              /\ Answered(p, 1)
              /\ is_success(Answer(p, 1).status) /\ Answer(p, 1).status # NO_CONTENT
              /\ IsSome(json_GetResponse(Answer(p, 1).body))
              /\ r.val = json_GetResponse(Answer(p, 1).body)
        /\ (~Answered(p, 1) \/ ~is_success(Answer(p, 1).status)
               \/ (Answer(p, 1).status # NO_CONTENT
                   /\ ~IsSome(json_GetResponse(Answer(p, 1).body)))) => IsErr(r)

(* C8: against a service that follows the wire protocol, a get_bytes(V,     *)
(* [K]) called right after put_bytes(V, K, P) returned success returns a    *)
(* hit whose key is K and whose bytes are P.                                *)
C8_RoundTrip ==
    \A p \in TaskIds :
        (/\ call[p].fn = "get_bytes" /\ Returned(p)
         /\ IsSome(last_put)
         /\ call[p].key_space = Unwrap(last_put).key_space
         /\ call[p].key_prefixes = <<Unwrap(last_put).key>>) =>
            /\ IsOk(Unwrap(result[p]))
            /\ Unwrap(result[p]).val =
                   Some([hit |-> CacheHit(Unwrap(last_put).key, Scope),
                         bytes |-> Unwrap(last_put).data])

(* C9: put_bytes with a zero-length payload sends no upload request: it     *)
(* sends a reserve request and then, the reserve having succeeded, a        *)
(* finalize request declaring size 0, and nothing else; with a non-empty    *)
(* payload every finalize request follows an upload request.                *)
C9_EmptyPayloadSkipsUpload ==
    \A p \in TaskIds : PutTask(p) =>
        /\ Len(call[p].data) = 0 =>
            /\ \A i \in 1..Len(sent[p]) : ~IsUpload(sent[p][i])
            /\ Len(sent[p]) <= 2
            /\ IsReserve(sent[p][1])
            /\ Len(sent[p]) = 2 =>
                  IsFinalize(sent[p][2]) /\ Unwrap(sent[p][2].body).size = 0
            /\ (Returned(p) /\ IsOk(Unwrap(result[p]))) => Len(sent[p]) = 2
        /\ Len(call[p].data) > 0 =>
            \A i \in 1..Len(sent[p]) :
                IsFinalize(sent[p][i]) => i = 3 /\ IsUpload(sent[p][2])

C9_Witness ==
    \E p \in TaskIds :
        /\ PutTask(p) /\ call[p].data = <<>>
        /\ Returned(p) /\ IsOk(Unwrap(result[p]))
        /\ Len(sent[p]) = 2 /\ IsReserve(sent[p][1]) /\ IsFinalize(sent[p][2])
        /\ Unwrap(sent[p][2].body).size = 0

(* C10: for a payload of length N >= 1 the one upload request carries the   *)
(* whole payload with Content-Range "bytes 0-(N-1)/*", no upload request is *)
(* built for N = 0, and the finalize request declares size N, the number of *)
(* bytes uploaded.                                                          *)
C10_ContentRangeExact ==
    \A p \in TaskIds : PutTask(p) =>
        LET N == Len(call[p].data) IN
        \A i \in 1..Len(sent[p]) :
            /\ IsUpload(sent[p][i]) =>
                /\ N >= 1
                /\ sent[p][i].body = Some([bytes |-> call[p].data])
                /\ sent[p][i].content_range = Some(<<"bytes ", 0, "-", N - 1, "/*">>)
                /\ sent[p][i].content_type = Some("application/octet-stream")
                /\ \A j \in 1..Len(sent[p]) : IsUpload(sent[p][j]) => j = i
            /\ IsFinalize(sent[p][i]) =>
                /\ Unwrap(sent[p][i].body).size = N
                /\ N >= 1 => \E j \in 1..(i - 1) :
                       IsUpload(sent[p][j]) /\ Len(Unwrap(sent[p][j].body).bytes) = N

C10_Witness ==
    \E p \in TaskIds :
        /\ PutTask(p) /\ Len(call[p].data) = MaxPayloadLen
        /\ Len(sent[p]) = 3 /\ IsUpload(sent[p][2]) /\ IsFinalize(sent[p][3])
        /\ Returned(p) /\ IsOk(Unwrap(result[p]))

GetTask(p) == call[p].fn \in {"get_url", "get_bytes"}
Lookups(p) == {i \in 1..Len(sent[p]) : IsLookup(sent[p][i])}

RECURSIVE OffsetOf(_, _)
(* where the i-th of the strings l starts in a text that holds them in      *)
(* order with one separator character between neighbours                   *)
OffsetOf(l, i) == IF i = 1 THEN 0 ELSE OffsetOf(l, i - 1) + Len(l[i - 1]) + 1

(* text holds the strings l in their order, one comma between neighbours,   *)
(* and nothing else                                                         *)
InOrderWithCommas(text, l) ==
    /\ Len(text) = OffsetOf(l, Len(l)) + Len(l[Len(l)])
    /\ \A i \in 1..Len(l) :
        /\ SubSeq(text, OffsetOf(l, i) + 1, OffsetOf(l, i) + Len(l[i])) = l[i]
        /\ i < Len(l) => text[OffsetOf(l, i) + Len(l[i]) + 1] = ","

(* C11: a lookup call sends exactly one lookup request; its keys parameter  *)
(* is the caller's prefixes in the caller's order with single commas        *)
(* between them, none reordered, dropped or duplicated, and its version     *)
(* parameter is the caller's key space unchanged.                           *)
C11_PrefixOrderPreserved ==
    \A p \in TaskIds : GetTask(p) =>
        /\ Lookups(p) = {1}
        /\ IsSome(sent[p][1].query)
        /\ InOrderWithCommas(Unwrap(sent[p][1].query).keys, call[p].key_prefixes)
        /\ Unwrap(sent[p][1].query).version = call[p].key_space

C11_Witness ==
    \E p \in TaskIds :
        /\ call[p].fn = "get_url"
        /\ call[p].key_prefixes = << <<"b">>, <<"a", ",", "b">> >>
        /\ Lookups(p) = {1}
        /\ Unwrap(sent[p][1].query).keys = <<"b", ",", "a", ",", "b">>
        /\ Answered(p, 1)

Count(p, kind) == Cardinality({i \in 1..Len(sent[p]) : Awaits(sent[p][i]) = kind})
Calling(p) == call[p] # NoCall
(* an error status with a Retry-After that reads as a u64 *)
RateLimited(response) ==
    /\ ErrorStatus(response.status)
    /\ DenotedBy(response.retry_after) # {}

(* C12: no request is repeated within a call: get_url sends exactly one     *)
(* lookup; get_bytes one lookup and at most one download; put_bytes one     *)
(* reserve, at most one upload and at most one finalize; and a call that    *)
(* received an error status with a readable Retry-After sends no further    *)
(* request, and has returned RateLimit in the step that received it when    *)
(* the request was a lookup, reserve, upload or finalize.                   *)
C12_NeverRetries ==
    \A p \in TaskIds : Calling(p) =>
        /\ call[p].fn = "get_url" =>
            Len(sent[p]) = 1 /\ Count(p, "lookup") = 1
        /\ call[p].fn = "get_bytes" =>
            /\ Count(p, "lookup") = 1 /\ Count(p, "download") <= 1
            /\ Len(sent[p]) = Count(p, "lookup") + Count(p, "download")
        /\ call[p].fn = "put_bytes" =>
            /\ Count(p, "reserve") = 1
            /\ Count(p, "upload") <= 1 /\ Count(p, "finalize") <= 1
            /\ Len(sent[p]) = Count(p, "reserve") + Count(p, "upload") + Count(p, "finalize")
        /\ \A i \in 1..Len(rcvd[p]) :
            (Answered(p, i) /\ RateLimited(Answer(p, i))) =>
                /\ Len(sent[p]) = i
                /\ ~IsDownload(sent[p][i]) =>
                    /\ Returned(p)
                    /\ IsErr(Unwrap(result[p]))
                    /\ Unwrap(result[p]).err.kind = "RateLimit"

C12_Witness ==
    \E p \in TaskIds :
        /\ PutTask(p) /\ Len(sent[p]) = 2 /\ IsUpload(sent[p][2])
        /\ Answered(p, 2) /\ RateLimited(Answer(p, 2))
        /\ Returned(p) /\ Unwrap(result[p]).err.kind = "RateLimit"

(* the request goes to a URL under the client's cache API endpoint *)
TargetsCacheApi(r) == r.url.base = Endpoint /\ ~IsSome(r.url.location)
EnvToken == env["ACTIONS_RUNTIME_TOKEN"].val

(* C14: every lookup, reserve, upload and finalize request carries          *)
(* Authorization: Bearer <token> and Accept:                                *)
(* application/json;api-version=6.0-preview.1; the download request to the  *)
(* archive location carries no Authorization header; so a request carries   *)
(* the token exactly when it targets the cache API.                         *)
C14_TokenOnlyToCacheApi ==
    \A p \in TaskIds : \A i \in 1..Len(sent[p]) :
        LET r == sent[p][i] IN
        /\ (IsLookup(r) \/ IsReserve(r) \/ IsUpload(r) \/ IsFinalize(r)) =>
            /\ r.authorization = Some(<<"Bearer ">> \o EnvToken)
            /\ r.accept = Some("application/json;api-version=6.0-preview.1")
        /\ IsDownload(r) =>
            /\ r.authorization = None
            /\ r.url.location = Some(Unwrap(found[p]).location)
        /\ IsSome(r.authorization) <=> TargetsCacheApi(r)

C14_Witness ==
    \E p \in TaskIds :
        /\ call[p].fn = "get_bytes" /\ Len(sent[p]) = 2
        /\ sent[p][1].authorization = Some(<<"Bearer ", "t">>)
        /\ IsDownload(sent[p][2]) /\ sent[p][2].authorization = None
        /\ Answered(p, 2)

Absent(name) == env[name].var = "NotPresent"
Unreadable(name) == env[name].var # "Present"
ConfigurationErrors == {NoRuntimeToken, NoEndpointUrl}
(* no call has returned a configuration error, and calls are made only on   *)
(* an instance that Cache::new returned                                     *)
CallsReturnNoConfigurationError ==
    \A p \in TaskIds :
        /\ Calling(p) => (IsSome(cache) /\ IsOk(Unwrap(cache)))
        /\ (IsSome(result[p]) /\ IsErr(Unwrap(result[p]))) =>
            Unwrap(result[p]).err \notin ConfigurationErrors

(* C13 as stated: Cache::new fails exactly when the token or the endpoint   *)
(* variable is absent, with NoRuntimeToken for an absent token and          *)
(* NoEndpointUrl for a present token with an absent endpoint; no call       *)
(* returns these errors.                                                    *)
C13_FailsExactlyWhenAbsent ==
    /\ IsSome(cache) =>
        /\ IsErr(Unwrap(cache)) <=>
            (Absent("ACTIONS_RUNTIME_TOKEN") \/ Absent("ACTIONS_CACHE_URL"))
        /\ Absent("ACTIONS_RUNTIME_TOKEN") => Unwrap(cache) = Err(NoRuntimeToken)
        /\ (~Absent("ACTIONS_RUNTIME_TOKEN") /\ Absent("ACTIONS_CACHE_URL")) =>
            Unwrap(cache) = Err(NoEndpointUrl)
    /\ CallsReturnNoConfigurationError

(* C13, amended: Cache::new fails with NoRuntimeToken when the token        *)
(* variable is absent or not valid Unicode; otherwise with NoEndpointUrl    *)
(* when the endpoint variable is absent or not valid Unicode; otherwise     *)
(* with a Reqwest error when the user agent is no valid header value, so    *)
(* that the HTTP client cannot be built; otherwise it succeeds with the     *)
(* token and the endpoint of the environment; no call returns               *)
(* NoRuntimeToken or NoEndpointUrl.                                         *)
C13_ConstructionOutcome ==
    /\ IsSome(cache) =>
        LET r == Unwrap(cache) IN
        IF Unreadable("ACTIONS_RUNTIME_TOKEN") THEN r = Err(NoRuntimeToken)
        ELSE IF Unreadable("ACTIONS_CACHE_URL") THEN r = Err(NoEndpointUrl)
        ELSE IF \E i \in 1..Len(user_agent) : user_agent[i] = "\\n"
             THEN IsErr(r) /\ r.err.kind = "Reqwest"
             ELSE /\ IsOk(r)
                  /\ r.val.token = env["ACTIONS_RUNTIME_TOKEN"].val
                  /\ r.val.endpoint = <<"http://h", "/_apis/artifactcache">>
    /\ CallsReturnNoConfigurationError

C13_Witness ==
    /\ env["ACTIONS_RUNTIME_TOKEN"] = Present(<<"t">>)
    /\ env["ACTIONS_CACHE_URL"] = Present(<<"http://h", "/">>)
    /\ user_agent = <<"c", "\\n">>
    /\ IsSome(cache) /\ IsErr(Unwrap(cache))
    /\ Unwrap(cache).err.kind = "Reqwest"

(* C15: no call changes the token or the endpoint of the instance, and the  *)
(* requests a call has sent and its result are determined by its arguments  *)
(* and the responses it received. Of two calls on the shared instance with  *)
(* equal arguments, whichever started first and however they interleave,    *)
(* that received the same first k responses: their first k+1 requests are   *)
(* the same as far as sent; if one has returned after those k responses,    *)
(* the other has received no further response and sent no further request,  *)
(* and once it has returned it holds the same result; and with all their    *)
(* responses equal and at the same await, or both returned, they have sent  *)
(* the same requests and hold the same result.                              *)
C15_StatelessAcrossCalls ==
    /\ Token = env["ACTIONS_RUNTIME_TOKEN"].val
    /\ Endpoint = <<"http://h", "/_apis/artifactcache">>
    /\ cache = Some(new(user_agent))
    /\ \A p \in TaskIds, q \in TaskIds :
        (Calling(p) /\ call[p] = call[q]) =>
            /\ \A k \in 0..Len(rcvd[p]) :
                (k <= Len(rcvd[q]) /\ SubSeq(rcvd[p], 1, k) = SubSeq(rcvd[q], 1, k)) =>
                    /\ \A i \in 1..(k + 1) :
                        (i <= Len(sent[p]) /\ i <= Len(sent[q])) => sent[p][i] = sent[q][i]
                    /\ (Returned(p) /\ Len(rcvd[p]) = k) =>
                        /\ Len(rcvd[q]) = k
                        /\ Len(sent[q]) = Len(sent[p])
                        /\ Returned(q) \/ pc[q] \in BodyStates
                        /\ Returned(q) => result[q] = result[p]
            /\ (rcvd[p] = rcvd[q] /\ pc[p] = pc[q]) =>
                (sent[p] = sent[q] /\ result[p] = result[q])

(* two calls of put_bytes with the same arguments and a payload have each   *)
(* received the same three answers, to reserve, upload and finalize, and    *)
(* both have returned success                                               *)
C15_Witness ==
    \E p \in TaskIds, q \in TaskIds :
        /\ p # q
        /\ call[p].fn = "put_bytes" /\ Len(call[p].data) > 0
        /\ call[p] = call[q]
        /\ rcvd[p] = rcvd[q] /\ Len(rcvd[p]) = 3
        /\ Returned(p) /\ Returned(q)
        /\ result[p] = Some(Ok("()")) /\ result[q] = result[p]

(* C16: Error::retry_after returns Some(n) for a RateLimit error carrying n *)
(* and None for Reqwest, NoRuntimeToken and NoEndpointUrl; for the error of *)
(* a classified response the n returned is the integer the Retry-After      *)
(* header of that response denotes.                                         *)
C16_RetryAfterAccessor ==
    IsSome(cl_retry_after) =>
        LET e == Unwrap(cl_retry_after).error
            v == Unwrap(cl_retry_after).returned
        IN /\ e.kind \in {"RateLimit", "Reqwest", "NoRuntimeToken", "NoEndpointUrl"}
           /\ e.kind = "RateLimit" => v = Some(e.retry_after)
           /\ e.kind # "RateLimit" => v = None
           /\ IsSome(v) =>
               /\ cl_result = Some(Err(e))
               /\ Unwrap(v) \in DenotedBy(cl_response.retry_after)

C16_Witness ==
    /\ cl_response.retry_after = Some(<<"0", "7">>)
    /\ cl_response.status = 503
    /\ IsSome(cl_retry_after)
    /\ Unwrap(cl_retry_after).error.kind = "RateLimit"
    /\ Unwrap(cl_retry_after).returned = Some(7)

(* the error an error status is classified as, whatever the body *)
ClassifiedAs(e, response) ==
    IF DenotedBy(response.retry_after) # {}
    THEN /\ e.kind = "RateLimit"
         /\ e.retry_after \in DenotedBy(response.retry_after)
    ELSE e = [kind |-> "Reqwest", cause |-> "status", status |-> response.status]

(* C17: when the answer to a lookup or a reserve request has an error       *)
(* status, the call has returned the classified error (RateLimit or the     *)
(* status error) whatever the body holds: never a decode error, never a     *)
(* hit, never a cache id; and that request is the last of the call.         *)
C17_ClassifiedBeforeDecoded ==
    \A p \in TaskIds : \A i \in 1..Len(rcvd[p]) :
        ( /\ IsLookup(sent[p][i]) \/ IsReserve(sent[p][i])
          /\ Answered(p, i)
          /\ ErrorStatus(Answer(p, i).status) ) =>
            /\ Returned(p) /\ Len(sent[p]) = i
            /\ IsErr(Unwrap(result[p]))
            /\ ClassifiedAs(Unwrap(result[p]).err, Answer(p, i))
            /\ cache_id[p] = None /\ found[p] = None

C17_Witness ==
    \E p \in TaskIds :
        /\ call[p].fn = "get_url" /\ Answered(p, 1)
        /\ Answer(p, 1).status = 503 /\ Answer(p, 1).retry_after = None
        /\ Answer(p, 1).body = GarbageBody
        /\ result[p] = Some(Err(ReqwestError("status", 503)))

(* what get_url returned to get_bytes, once the lookup was answered *)
LookupReturned(p) == get_url_result(rcvd[p][1])
LookupHit(p) ==
    /\ Len(rcvd[p]) >= 1
    /\ IsOk(LookupReturned(p)) /\ IsSome(LookupReturned(p).val)

(* C19: a get_bytes call sends a download request only as its second        *)
(* request, after get_url returned a hit, and to the archive location of    *)
(* that hit; when get_url returned "no match" the call has returned "no     *)
(* match", and when get_url failed the call has returned that error, with   *)
(* the lookup as its only request; a successful result carries the hit of   *)
(* the lookup unchanged.                                                    *)
C19_DownloadOnlyAfterHit ==
    \A p \in TaskIds : call[p].fn = "get_bytes" =>
        /\ \A i \in 1..Len(sent[p]) : IsDownload(sent[p][i]) =>
            /\ i = 2 /\ LookupHit(p)
            /\ sent[p][i].url.location = Some(Unwrap(LookupReturned(p).val).location)
            /\ sent[p][i].url.location = Some(Answer(p, 1).body.archiveLocation)
        /\ (Len(rcvd[p]) >= 1 /\ Settled(p, 1) /\ ~LookupHit(p)) =>
            /\ Returned(p) /\ Len(sent[p]) = 1
            /\ result[p] = Some(LookupReturned(p))
            /\ (Answered(p, 1) /\ Answer(p, 1).status = NO_CONTENT) =>
                result[p] = Some(Ok(None))
        /\ (Returned(p) /\ IsOk(Unwrap(result[p])) /\ IsSome(Unwrap(result[p]).val)) =>
            /\ LookupHit(p)
            /\ Unwrap(Unwrap(result[p]).val).hit = Unwrap(LookupReturned(p).val).hit
            /\ Unwrap(Unwrap(result[p]).val).hit =
                   [key |-> Answer(p, 1).body.cacheKey, scope |-> Answer(p, 1).body.scope]

C19_Witness ==
    \E p \in TaskIds :
        /\ call[p].fn = "get_bytes" /\ Len(sent[p]) = 2
        /\ Answer(p, 1).body = HitBody(<<"b">>, Scope, LocationOf("v1", <<"b">>))
        /\ sent[p][2].url.location = Some(LocationOf("v1", <<"b">>))
        /\ Returned(p) /\ IsOk(Unwrap(result[p]))
        /\ Unwrap(Unwrap(result[p]).val).hit.key = <<"b">>

KeysSent(p) == Unwrap(sent[p][1].query).keys

(* C20: two lookup calls with different prefix lists send different keys    *)
(* parameters, and splitting the keys parameter a call sent at the commas   *)
(* gives back the caller's prefix list, whatever the prefixes contain.      *)
C20_KeysIdentifyPrefixList ==
    /\ \A p \in TaskIds, q \in TaskIds :
        (GetTask(p) /\ GetTask(q) /\ call[p].key_prefixes # call[q].key_prefixes) =>
            KeysSent(p) # KeysSent(q)
    /\ \A p \in TaskIds :
        GetTask(p) => Split(KeysSent(p), ",") = call[p].key_prefixes

InFlight(p) == pc[p] \notin {"idle", "returned"}

(* C18: in every interleaving of calls on the shared instance, each         *)
(* put_bytes call sends its upload and its finalize request to the cache    *)
(* id of the reserve response that same call received, declares its own     *)
(* payload length as the finalize size, uploads its own payload, and sends  *)
(* reserve, then upload, then finalize, each after the previous one was     *)
(* answered; the client holds no call back, so several calls, also for the  *)
(* same key, are in flight together.                                        *)
C18_ConcurrentPutsKeepOwnId ==
    \A p \in TaskIds : PutTask(p) =>
        /\ IsReserve(sent[p][1])
        /\ Unwrap(sent[p][1].body).key = call[p].key
        /\ Unwrap(sent[p][1].body).version = call[p].key_space
        /\ \A i \in 2..Len(sent[p]) :
            /\ Answered(p, i - 1)
            /\ ReserveParsed(p)
            /\ IsUpload(sent[p][i]) \/ IsFinalize(sent[p][i])
            /\ sent[p][i].url.id = Some(ParsedId(p))
            /\ IsUpload(sent[p][i]) =>
                i = 2 /\ Unwrap(sent[p][i].body).bytes = call[p].data
            /\ IsFinalize(sent[p][i]) =>
                /\ i = Len(sent[p])
                /\ Unwrap(sent[p][i].body).size = Len(call[p].data)
                /\ i = 3 => IsUpload(sent[p][2])

(* two calls for the same key are in flight, each holding a reservation of  *)
(* its own that is outstanding at the service, each on its own id           *)
C18_Witness ==
    \E p \in TaskIds, q \in TaskIds :
        /\ p # q /\ PutTask(p) /\ PutTask(q)
        /\ call[p].key = call[q].key /\ call[p].key_space = call[q].key_space
        /\ InFlight(p) /\ InFlight(q)
        /\ Len(sent[p]) = 3 /\ Len(sent[q]) = 2
        /\ ParsedId(p) # ParsedId(q)
        /\ sent[p][3].url.id = Some(ParsedId(p))
        /\ sent[q][2].url.id = Some(ParsedId(q))
        /\ \E r1 \in reservations, r2 \in reservations :
            /\ r1.id = ParsedId(p) /\ r2.id = ParsedId(q)
            /\ r1.key = call[p].key /\ r2.key = call[p].key
            /\ r1.version = r2.version

====
